---- MODULE Spec2Model ----
(***************************************************************************)
(* Issue tracker (FastAPI backend): the five route handlers of             *)
(* app/routes/issues.py over the whole-collection store of app/storage,    *)
(* with the request schemas of app/schemas.py.                             *)
(*                                                                         *)
(* Handlers are plain `def` routes, which FastAPI runs on a thread pool,   *)
(* so requests overlap.  A handler touches the shared store only in        *)
(* load_data() and save_data(); everything between works on the handler's  *)
(* private list.  A mutating handler is therefore two steps here: one up   *)
(* to and including load_data(), one from the scan to the return.          *)
(***************************************************************************)
EXTENDS Naturals, Sequences, FiniteSets, TLC

VARIABLES
    store,      \* the persisted collection: a sequence of issue records
    nextId,     \* number of uuid4() values drawn so far, plus one
    req,        \* per client: the request in flight or the last response
    nreq,       \* number of requests started
    shared,     \* whether the second client has sent a request
    created,    \* history: ids returned by create, in order of return
    deleted,    \* history: ids whose delete returned 204
    fresh       \* history: records returned by create and not updated/deleted since

vars == <<store, nextId, req, nreq, shared, created, deleted, fresh>>

----------------------------------------------------------------------------
(* Bounds *)

\* requests in a run of the first client alone
MaxRequests == 4

\* requests in a run in which the second client takes part
MaxShared == 3

Procs == {1, 2}

----------------------------------------------------------------------------
(* app/schemas.py *)

TitleMin == 3
TitleMax == 255
DescMin == 5
DescMax == 1000

IssueStatus == {"open", "in progress", "closed"}

IssuePriority == {"low", "medium", "high"}

\* Optional[T]: None is the empty set, a supplied value v is {v}.
None == {}

Some(v) == {v}

Val(o) == CHOOSE v \in o : TRUE

RECURSIVE Rep(_, _)
\* A string of n copies of the one-character string c.
Rep(c, n) ==
    IF n = 0 THEN ""
    ELSE IF n % 2 = 0 THEN LET h == Rep(c, n \div 2) IN h \o h
    ELSE c \o Rep(c, n - 1)

\* Field(..., min_length, max_length) on a str
ValidLenMutNoMin(s, lo, hi) == Len(s) <= hi

ValidLen(s, lo, hi) == Len(s) >= lo /\ Len(s) <= hi

\* priority: IssuePriority / Optional[IssuePriority]
ValidPriorityMutAny(o) == TRUE

ValidPriority(o) == IF o = None THEN TRUE ELSE Val(o) \in IssuePriority

\* status: Optional[IssueStatus]
ValidStatus(o) == IF o = None THEN TRUE ELSE Val(o) \in IssueStatus

\* IssueCreate: title and description required, priority defaults to medium.
\* The model declares no status field; an extra key in the body is ignored.
ValidCreate(raw) ==
    /\ raw.title # None
    /\ ValidLen(Val(raw.title), TitleMin, TitleMax)
    /\ raw.description # None
    /\ ValidLen(Val(raw.description), DescMin, DescMax)
    /\ ValidPriority(raw.priority)

IssueCreate(raw) ==
    [title       |-> Val(raw.title),
     description |-> Val(raw.description),
     priority    |-> IF raw.priority = None THEN "medium" ELSE Val(raw.priority)]

\* IssueUpdate: every field optional, default None.
ValidUpdate(raw) ==
    /\ IF raw.title = None THEN TRUE
       ELSE ValidLen(Val(raw.title), TitleMin, TitleMax)
    /\ IF raw.description = None THEN TRUE
       ELSE ValidLen(Val(raw.description), DescMin, DescMax)
    /\ ValidPriority(raw.priority)
    /\ ValidStatus(raw.status)

----------------------------------------------------------------------------
(* Request inputs *)

T2 == Rep("t", TitleMin - 1)
T3 == Rep("t", TitleMin)
T255 == Rep("t", TitleMax)
T256 == Rep("t", TitleMax + 1)
D4 == Rep("d", DescMin - 1)
D5 == Rep("d", DescMin)
D1000 == Rep("d", DescMax)
D1001 == Rep("d", DescMax + 1)

Body(t, d, p, s) == [title |-> t, description |-> d, priority |-> p, status |-> s]

NoBody == Body(None, None, None, None)

ValidCreateBodies ==
    { Body(Some(T3), Some(D5), None, None),
      Body(Some(T3), Some(D5), Some("low"), None),
      Body(Some(T255), Some(D1000), Some("high"), None),
      Body(Some(T3), Some(D5), None, Some("closed")),
      Body(Some(T3), Some(D5), Some("high"), Some("done")) }

InvalidCreateBodies ==
    { Body(Some(T2), Some(D5), None, None),
      Body(Some(T256), Some(D5), Some("low"), None),
      Body(Some(T3), Some(D4), None, None),
      Body(Some(T3), Some(D1001), Some("high"), None),
      Body(Some(T3), Some(D5), Some("urgent"), None),
      Body(None, Some(D5), None, None),
      Body(Some(T3), None, None, None) }

CreateBodies == ValidCreateBodies \cup InvalidCreateBodies

\* every subset of the four fields supplied, plus some other values
ValidUpdateBodies ==
    { Body(t, d, p, s) : t \in {None, Some(T255)}, d \in {None, Some(D1000)},
                         p \in {None, Some("high")}, s \in {None, Some("closed")} }
    \cup { Body(None, None, None, Some("in progress")),
           Body(None, None, Some("low"), None),
           Body(Some(T3), Some(D5), None, Some("open")) }

InvalidUpdateBodies ==
    { Body(Some(T2), None, None, Some("closed")),
      Body(Some(T256), Some(D1000), None, None),
      Body(Some(T255), Some(D4), None, None),
      Body(None, Some(D1001), Some("high"), None),
      Body(None, None, Some("urgent"), Some("closed")),
      Body(Some(T255), None, None, Some("done")) }

UpdateBodies == ValidUpdateBodies \cup InvalidUpdateBodies

\* The second client sends fewer different bodies than the first.
CreateBodiesOf(p) ==
    IF p = 1 THEN CreateBodies
    ELSE { Body(Some(T3), Some(D5), None, None),
           Body(Some(T2), Some(D5), None, None) }

UpdateBodiesOf(p) ==
    IF p = 1 THEN UpdateBodies
    ELSE { Body(None, None, None, Some("closed")),
           Body(Some(T255), None, None, None),
           Body(Some(T255), None, None, Some("done")) }

\* Path ids a client may send: every id handed out so far, and 0, which
\* uuid4 never returns.
PathIds == 0 .. (nextId - 1)

----------------------------------------------------------------------------
(* app/storage (not in the source tree; from the storage contract) *)

\* load_data(): the whole persisted collection, in order
LoadData == store

\* save_data(issues): replaces the whole persisted collection
SaveData(issues) == store' = issues

----------------------------------------------------------------------------
(* app/routes/issues.py: the handlers' computations *)

Ids(issues) == { issues[i].id : i \in 1 .. Len(issues) }

\* str(uuid4()): a value no earlier call returned
Uuid4MutByLength == Len(store) + 1

Uuid4 == nextId

\* new_issue = {...}
NewIssueMutDefaultPriority(id, issue) ==
    [id          |-> id,
     title       |-> issue.title,
     description |-> issue.description,
     status      |-> "open",
     priority    |-> "medium"]

NewIssue(id, issue) ==
    [id          |-> id,
     title       |-> issue.title,
     description |-> issue.description,
     status      |-> "open",
     priority    |-> issue.priority]

\* issues.append(new_issue)
AppendIssue(issues, new_issue) == Append(issues, new_issue)

\* for issue in issues: if issue["id"] == issue_id -- index of the first
\* match, 0 when the scan ends without one
FindIndexMutLast(issues, issue_id) ==
    IF \E i \in 1 .. Len(issues) : issues[i].id = issue_id
    THEN CHOOSE i \in 1 .. Len(issues) :
            /\ issues[i].id = issue_id
            /\ \A j \in 1 .. (i - 1) : issues[j].id # issue_id
    ELSE Len(issues)

FindIndex(issues, issue_id) ==
    IF \E i \in 1 .. Len(issues) : issues[i].id = issue_id
    THEN CHOOSE i \in 1 .. Len(issues) :
            /\ issues[i].id = issue_id
            /\ \A j \in 1 .. (i - 1) : issues[j].id # issue_id
    ELSE 0

\* the four `if issue_to_update.<field> is not None` assignments
ApplyUpdateMutOverwrite(issue, upd) ==
    [issue EXCEPT
        !.title       = IF upd.title # None THEN Val(upd.title) ELSE @,
        !.description = IF upd.description # None THEN Val(upd.description) ELSE @,
        !.priority    = IF upd.priority # None THEN Val(upd.priority) ELSE "medium",
        !.status      = IF upd.status # None THEN Val(upd.status) ELSE "open"]

ApplyUpdate(issue, upd) ==
    [issue EXCEPT
        !.title       = IF upd.title # None THEN Val(upd.title) ELSE @,
        !.description = IF upd.description # None THEN Val(upd.description) ELSE @,
        !.priority    = IF upd.priority # None THEN Val(upd.priority) ELSE @,
        !.status      = IF upd.status # None THEN Val(upd.status) ELSE @]

\* the loaded list after the matched issue was mutated in place
UpdatedIssuesMutMoveLast(issues, i, upd) ==
    SubSeq(issues, 1, i - 1) \o SubSeq(issues, i + 1, Len(issues))
        \o <<ApplyUpdate(issues[i], upd)>>

UpdatedIssues(issues, i, upd) ==
    [issues EXCEPT ![i] = ApplyUpdate(@, upd)]

\* issues.pop(i)
PopMutSwapLast(issues, i) ==
    IF i = Len(issues) THEN SubSeq(issues, 1, i - 1)
    ELSE [j \in 1 .. (Len(issues) - 1) |-> IF j = i THEN issues[Len(issues)] ELSE issues[j]]

PopMutLast(issues, i) == SubSeq(issues, 1, Len(issues) - 1)

Pop(issues, i) ==
    SubSeq(issues, 1, i - 1) \o SubSeq(issues, i + 1, Len(issues))

----------------------------------------------------------------------------
(* Requests *)

Idle ==
    [pc |-> "idle", op |-> "none", id |-> 0, raw |-> NoBody,
     issues |-> <<>>, new_issue |-> <<>>, code |-> 0, body |-> <<>>]

\* a handler stopped between load_data() and its scan
Loaded(op, id, raw, issues, new_issue) ==
    [pc |-> "loaded", op |-> op, id |-> id, raw |-> raw,
     issues |-> issues, new_issue |-> new_issue, code |-> 0, body |-> <<>>]

\* a response: status code and returned records
Done(op, id, raw, code, body) ==
    [pc |-> "done", op |-> op, id |-> id, raw |-> raw,
     issues |-> <<>>, new_issue |-> <<>>, code |-> code, body |-> body]

\* the handler's private list `issues`
LocalIssuesMutReload(p) == store

LocalIssues(p) == req[p].issues

Budget(p) == IF shared \/ p # 1 THEN MaxShared ELSE MaxRequests

CanStart(p) == req[p].pc # "loaded" /\ nreq < Budget(p)

Start(p, r) ==
    /\ req' = [req EXCEPT ![p] = r]
    /\ nreq' = nreq + 1
    /\ shared' = (shared \/ p # 1)

Init ==
    /\ store = <<>>
    /\ nextId = 1
    /\ req = [p \in Procs |-> Idle]
    /\ nreq = 0
    /\ shared = FALSE
    /\ created = <<>>
    /\ deleted = {}
    /\ fresh = {}

\* GET /  (get_issues)
GetIssues(p) ==
    /\ CanStart(p)
    /\ LET issues == LoadData IN
         Start(p, Done("list", 0, NoBody, 200, issues))
    /\ UNCHANGED <<store, nextId, created, deleted, fresh>>

\* GET /{issue_id}  (get_issue)
GetIssue(p) ==
    /\ CanStart(p)
    /\ \E issue_id \in PathIds :
         LET issues == LoadData
             i == FindIndex(issues, issue_id) IN
         IF i # 0
         THEN Start(p, Done("get", issue_id, NoBody, 200, <<issues[i]>>))
         ELSE Start(p, Done("get", issue_id, NoBody, 404, <<>>))
    /\ UNCHANGED <<store, nextId, created, deleted, fresh>>

\* POST / with a body IssueCreate rejects: 422 before the handler runs
CreateRejected(p) ==
    /\ CanStart(p)
    /\ \E raw \in CreateBodiesOf(p) :
         /\ ~ValidCreate(raw)
         /\ Start(p, Done("create", 0, raw, 422, <<>>))
    /\ UNCHANGED <<store, nextId, created, deleted, fresh>>

\* POST /  (create_issue), up to issues = load_data()
CreateLoad(p) ==
    /\ CanStart(p)
    /\ \E raw \in CreateBodiesOf(p) :
         /\ ValidCreate(raw)
         /\ LET new_issue == NewIssue(Uuid4, IssueCreate(raw)) IN
              Start(p, Loaded("create", new_issue.id, raw, LoadData, <<new_issue>>))
    /\ nextId' = nextId + 1
    /\ UNCHANGED <<store, created, deleted, fresh>>

\* create_issue from issues.append(new_issue) to the return
CreateSave(p) ==
    /\ req[p].pc = "loaded" /\ req[p].op = "create"
    /\ LET new_issue == req[p].new_issue[1]
           issues == AppendIssue(LocalIssues(p), new_issue) IN
         /\ SaveData(issues)
         /\ req' = [req EXCEPT ![p] =
                      Done("create", new_issue.id, req[p].raw, 201, <<new_issue>>)]
         /\ created' = Append(created, new_issue.id)
         /\ fresh' = fresh \cup {new_issue}
    /\ UNCHANGED <<nextId, nreq, shared, deleted>>

\* PUT /{issue_id} with a body IssueUpdate rejects: 422 before the handler runs
UpdateRejected(p) ==
    /\ CanStart(p)
    /\ \E issue_id \in PathIds, raw \in UpdateBodiesOf(p) :
         /\ ~ValidUpdate(raw)
         /\ Start(p, Done("update", issue_id, raw, 422, <<>>))
    /\ UNCHANGED <<store, nextId, created, deleted, fresh>>

\* PUT /{issue_id}  (update_issue), up to issues = load_data()
UpdateLoad(p) ==
    /\ CanStart(p)
    /\ \E issue_id \in PathIds, raw \in UpdateBodiesOf(p) :
         /\ ValidUpdate(raw)
         /\ Start(p, Loaded("update", issue_id, raw, LoadData, <<>>))
    /\ UNCHANGED <<store, nextId, created, deleted, fresh>>

\* update_issue from the scan to the return or the 404
UpdateFinish(p) ==
    /\ req[p].pc = "loaded" /\ req[p].op = "update"
    /\ LET i == FindIndex(LocalIssues(p), req[p].id) IN
         IF i # 0
         THEN LET issues == UpdatedIssues(LocalIssues(p), i, req[p].raw) IN
                /\ SaveData(issues)
                /\ req' = [req EXCEPT ![p] =
                             Done("update", req[p].id, req[p].raw, 200, <<issues[i]>>)]
                /\ fresh' = { r \in fresh : r.id # req[p].id }
         ELSE /\ req' = [req EXCEPT ![p] =
                             Done("update", req[p].id, req[p].raw, 404, <<>>)]
              /\ UNCHANGED <<store, fresh>>
    /\ UNCHANGED <<nextId, nreq, shared, created, deleted>>

\* DELETE /{issue_id}  (delete_issue), up to issues = load_data()
DeleteLoad(p) ==
    /\ CanStart(p)
    /\ \E issue_id \in PathIds :
         Start(p, Loaded("delete", issue_id, NoBody, LoadData, <<>>))
    /\ UNCHANGED <<store, nextId, created, deleted, fresh>>

\* delete_issue from the scan to the return or the 404
DeleteFinish(p) ==
    /\ req[p].pc = "loaded" /\ req[p].op = "delete"
    /\ LET i == FindIndex(LocalIssues(p), req[p].id) IN
         IF i # 0
         THEN /\ SaveData(Pop(LocalIssues(p), i))
              /\ req' = [req EXCEPT ![p] =
                           Done("delete", req[p].id, NoBody, 204, <<>>)]
              /\ deleted' = deleted \cup {req[p].id}
              /\ fresh' = { r \in fresh : r.id # req[p].id }
         ELSE /\ req' = [req EXCEPT ![p] =
                           Done("delete", req[p].id, NoBody, 404, <<>>)]
              /\ UNCHANGED <<store, deleted, fresh>>
    /\ UNCHANGED <<nextId, nreq, shared, created>>

Step(p) ==
    \/ GetIssues(p)
    \/ GetIssue(p)
    \/ CreateRejected(p)
    \/ CreateLoad(p)
    \/ CreateSave(p)
    \/ UpdateRejected(p)
    \/ UpdateLoad(p)
    \/ UpdateFinish(p)
    \/ DeleteLoad(p)
    \/ DeleteFinish(p)

\* requests of two clients, overlapping freely
Next == \E p \in Procs : Step(p)

Spec == Init /\ [][Next]_vars

\* requests one at a time: one client, each request finished before the next
SeqNext == Step(1)

SeqSpec == Init /\ [][SeqNext]_vars

----------------------------------------------------------------------------
(* Properties *)

\* client p starts a request in this step
Started(p) == nreq' = nreq + 1 /\ req'[p] # req[p]

\* client p's handler runs from its scan to its return in this step
Finished(p) == req[p].pc = "loaded" /\ req'[p].pc = "done"

Records(issues) == { issues[i] : i \in 1 .. Len(issues) }

IdSeq(issues) == [i \in 1 .. Len(issues) |-> issues[i].id]

NoDuplicates(seq) ==
    \A i, j \in 1 .. Len(seq) : i # j => seq[i] # seq[j]

\* C1: no two issues of the persisted collection have the same id, whatever
\* requests ran and however their loads and saves interleaved, and create
\* never returns an id it returned before, also not the id of a deleted issue.
C1_UniqueIds ==
    /\ NoDuplicates(IdSeq(store))
    /\ NoDuplicates(created)

\* two creates have returned, the first one's issue was deleted since
C1_Witness ==
    /\ Len(created) >= 2
    /\ created[1] \in deleted
    /\ Len(store) >= 1

\* C2: a successful update sets exactly the fields its body supplies to the
\* supplied values and leaves the other fields of the issue at their stored
\* values; it returns the issue as persisted.
C2_PartialUpdate ==
    [][\A p \in Procs :
        (Finished(p) /\ req[p].op = "update" /\ req'[p].code = 200) =>
            \E i \in 1 .. Len(store) :
                LET old == store[i]
                    new == store'[i]
                    upd == req[p].raw IN
                /\ old.id = req[p].id
                /\ new.title = IF upd.title # None THEN Val(upd.title) ELSE old.title
                /\ new.description =
                     IF upd.description # None THEN Val(upd.description) ELSE old.description
                /\ new.priority =
                     IF upd.priority # None THEN Val(upd.priority) ELSE old.priority
                /\ new.status = IF upd.status # None THEN Val(upd.status) ELSE old.status
                /\ req'[p].body = <<new>>]_vars

\* an update carrying only status has closed an issue of priority low
C2_Witness ==
    \E p \in Procs :
        /\ req[p].pc = "done" /\ req[p].op = "update" /\ req[p].code = 200
        /\ req[p].raw = Body(None, None, None, Some("closed"))
        /\ req[p].body[1].status = "closed"
        /\ req[p].body[1].priority = "low"
        /\ req[p].body[1] \in Records(store)

\* C3: get, update and delete of an id that matches no issue of the loaded
\* collection answer 404 and leave the persisted collection as it was.
C3_NotFound ==
    [][\A p \in Procs :
        /\ (Started(p) /\ req'[p].op = "get" /\ req'[p].id \notin Ids(store)) =>
              (req'[p].pc = "done" /\ req'[p].code = 404 /\ store' = store)
        /\ (Finished(p) /\ req[p].op \in {"update", "delete"}
               /\ req[p].id \notin Ids(req[p].issues)) =>
              (req'[p].code = 404 /\ store' = store)]_vars

\* a delete of an absent id answered 404 on a collection that is not empty
C3_Witness ==
    \E p \in Procs :
        /\ req[p].pc = "done" /\ req[p].op = "delete" /\ req[p].code = 404
        /\ req[p].id \notin Ids(store)
        /\ Len(store) >= 1

\* C4: create returns a record with the supplied title and description, the
\* supplied priority or medium, and status open, whatever else the body held;
\* a get of that id, before any update or delete of it, returns that record.
C4_CreateGetRoundTrip ==
    [][\A p \in Procs :
        /\ (Finished(p) /\ req[p].op = "create") =>
              LET raw == req[p].raw IN
              /\ req'[p].code = 201
              /\ Len(req'[p].body) = 1
              /\ req'[p].body[1].title = Val(raw.title)
              /\ req'[p].body[1].description = Val(raw.description)
              /\ req'[p].body[1].priority =
                    IF raw.priority = None THEN "medium" ELSE Val(raw.priority)
              /\ req'[p].body[1].status = "open"
              /\ req'[p].body[1] \in fresh'
        /\ (Started(p) /\ req'[p].op = "get") =>
              \A r \in fresh : r.id = req'[p].id =>
                  (req'[p].code = 200 /\ req'[p].body = <<r>>)]_vars

\* a get returned an issue as created from a body with priority high and
\* a status key
C4_Witness ==
    \E p \in Procs :
        /\ req[p].pc = "done" /\ req[p].op = "get" /\ req[p].code = 200
        /\ req[p].body[1] \in fresh
        /\ req[p].body[1].title = T3
        /\ req[p].body[1].priority = "high"
        /\ req[p].body[1].status = "open"

\* C5: with requests one at a time, the persisted collection, which list
\* returns, holds the issues in the order create returned them, the deleted
\* ones removed.
C5_CreationOrder ==
    /\ LET Alive(id) == id \notin deleted IN
         IdSeq(store) = SelectSeq(created, Alive)
    /\ \A p \in Procs :
         (req[p].pc = "done" /\ req[p].op = "list") =>
            (req[p].code = 200 /\ req[p].body = store)

\* three issues were created and one but the last was deleted
C5_Witness ==
    /\ Len(created) = 3
    /\ Len(store) = 2
    /\ created[3] \notin deleted

\* C6 as stated: a create or update whose body has a title or description of
\* a wrong length, or a status or priority outside its enumeration, is
\* answered 422.
BadLength(o, lo, hi) == o # None /\ (Len(Val(o)) < lo \/ Len(Val(o)) > hi)

BadEnum(o, values) == o # None /\ Val(o) \notin values

C6_Original ==
    \A p \in Procs :
        (/\ req[p].op \in {"create", "update"}
         /\ \/ BadLength(req[p].raw.title, 3, 255)
            \/ BadLength(req[p].raw.description, 5, 1000)
            \/ BadEnum(req[p].raw.priority, {"low", "medium", "high"})
            \/ BadEnum(req[p].raw.status, {"open", "in progress", "closed"}))
        => (req[p].pc = "done" /\ req[p].code = 422)

\* C6: a create or update whose body has a title or description of a wrong
\* length or a priority outside its enumeration, and an update whose body has
\* a status outside its enumeration, is answered 422 at once and the
\* persisted collection stays as it was; a body with every field in range
\* (title of length 3 to 255, description of length 5 to 1000) is not
\* rejected, and neither is a create body for its status key.
C6_ValidationBeforeMutation ==
    [][\A p \in Procs :
        (Started(p) /\ req'[p].op \in {"create", "update"}) =>
            LET raw == req'[p].raw
                bad == \/ BadLength(raw.title, 3, 255)
                       \/ BadLength(raw.description, 5, 1000)
                       \/ BadEnum(raw.priority, {"low", "medium", "high"})
                       \/ /\ req'[p].op = "update"
                          /\ BadEnum(raw.status, {"open", "in progress", "closed"})
                missing == /\ req'[p].op = "create"
                           /\ (raw.title = None \/ raw.description = None) IN
            /\ store' = store
            /\ bad => (req'[p].pc = "done" /\ req'[p].code = 422)
            /\ (~bad /\ ~missing) => req'[p].pc = "loaded"]_vars

\* an update with a valid new title and a status outside the enumeration
\* was answered 422 and its issue does not have the new title
C6_Witness ==
    \E p \in Procs :
        /\ req[p].pc = "done" /\ req[p].op = "update" /\ req[p].code = 422
        /\ req[p].raw.title = Some(T255)
        /\ req[p].raw.status = Some("done")
        /\ \E i \in 1 .. Len(store) :
              store[i].id = req[p].id /\ store[i].title # T255

\* C7 as stated: once a delete of an id has returned 204, no later state of
\* the persisted collection holds an issue with that id.
C7_Original == \A x \in deleted : x \notin Ids(store)

\* C7: a delete that returns 204 persists a collection without the id; a
\* deleted id comes back only by the save of a request whose private list,
\* loaded while the id was in the collection, still holds it; and while the
\* id is absent every get, update or delete of it that loads then answers 404.
C7_DeletedUnlessStaleSave ==
    [][\A p \in Procs :
        /\ (Finished(p) /\ req[p].op = "delete" /\ req'[p].code = 204) =>
              req[p].id \notin Ids(store')
        /\ \A x \in deleted :
              /\ (x \notin Ids(store) /\ x \in Ids(store')) =>
                    \E q \in Procs : Finished(q) /\ x \in Ids(req[q].issues)
              /\ (x \notin Ids(store) /\ Started(p) /\ req'[p].id = x) =>
                    \/ req'[p].pc = "done" /\ req'[p].code \in {404, 422}
                    \/ req'[p].pc = "loaded" /\ x \notin Ids(req'[p].issues)
              /\ (Finished(p) /\ req[p].id = x /\ x \notin Ids(req[p].issues)) =>
                    req'[p].code = 404]_vars

\* a get of a deleted id answered 404
C7_Witness ==
    \E p \in Procs :
        /\ req[p].pc = "done" /\ req[p].op = "get" /\ req[p].code = 404
        /\ req[p].id \in deleted
        /\ req[p].id \notin Ids(store)

\* C8: every persisted issue has a status among open, in progress, closed
\* and a priority among low, medium, high.
C8_EnumsOnly ==
    \A i \in 1 .. Len(store) :
        /\ store[i].status \in {"open", "in progress", "closed"}
        /\ store[i].priority \in {"low", "medium", "high"}

\* an update has set both fields of a persisted issue
C8_Witness ==
    \E i \in 1 .. Len(store) :
        /\ store[i].status = "closed"
        /\ store[i].priority = "high"
        /\ \E p \in Procs :
              /\ req[p].pc = "done" /\ req[p].op = "update" /\ req[p].code = 200
              /\ req[p].id = store[i].id

\* C9: a save persists the saver's private list with its own change and
\* nothing else: every other issue it persists is as the saver loaded it, and
\* an issue another request created and saved after the saver loaded is gone
\* from the persisted collection, though that create answered 201.
C9_LostUpdate ==
    [][\A p \in Procs :
        (Finished(p) /\ req'[p].code \in {200, 201, 204}) =>
            /\ \A i \in 1 .. Len(store') :
                  store'[i].id # req[p].id => store'[i] \in Records(req[p].issues)
            /\ \A q \in Procs \ {p} :
                  (/\ req[q].pc = "done" /\ req[q].op = "create" /\ req[q].code = 201
                   /\ req[q].id \notin Ids(req[p].issues))
                  => req[q].id \notin Ids(store')]_vars

\* two creates answered 201; the issue of one is in the persisted collection,
\* the issue of the other is not, and nobody deleted it
C9_Witness ==
    \E p, q \in Procs :
        /\ p # q
        /\ req[p].pc = "done" /\ req[p].op = "create" /\ req[p].code = 201
        /\ req[q].pc = "done" /\ req[q].op = "create" /\ req[q].code = 201
        /\ req[p].id \in Ids(store)
        /\ req[q].id \notin Ids(store)
        /\ req[q].id \notin deleted

\* C10: with requests one at a time, a successful update keeps the length of
\* the collection, every issue's id and position, and every field of every
\* other issue; list and get leave the persisted collection unchanged.
C10_UpdateFrame ==
    [][\A p \in Procs :
        /\ (Finished(p) /\ req[p].op = "update" /\ req'[p].code = 200) =>
              /\ Len(store') = Len(store)
              /\ \A i \in 1 .. Len(store) :
                    /\ store'[i].id = store[i].id
                    /\ store[i].id # req[p].id => store'[i] = store[i]
        /\ (Started(p) /\ req'[p].op \in {"list", "get"}) => store' = store]_vars

\* the first of several issues was updated and is still the first
C10_Witness ==
    \E p \in Procs :
        /\ req[p].pc = "done" /\ req[p].op = "update" /\ req[p].code = 200
        /\ Len(store) >= 2
        /\ store[1].id = req[p].id
        /\ store[1] = req[p].body[1]
        /\ store[1].title = T255

====
